---- MODULE Spec2Model ----
(***************************************************************************)
(* Model of the JSON-over-HTTP request helper doRpc: the timer/transport   *)
(* race of doFetch and the classification of the response by status,       *)
(* content-length, content-type and body.                                  *)
(*                                                                         *)
(* Text is a sequence of one-character strings, so that startsWith,        *)
(* toLowerCase, parseInt, JSON.parse and JSON.stringify are computed       *)
(* character by character.  An optional value (a header that may be        *)
(* missing, a status that may be undefined) is the empty sequence or a     *)
(* one-element sequence.                                                   *)
(***************************************************************************)
EXTENDS Integers, Sequences, FiniteSets, TLC

None == <<>>
Some(x) == <<x>>

(***************************************************************************)
(* Bounds of the model.                                                    *)
(***************************************************************************)
\* Longest response body generated from BodyAlphabet.
MaxBodyLen == 2
\* Largest number of members of a generated JSON object.
MaxMembers == 2

(***************************************************************************)
(* Text primitives of the platform.                                        *)
(***************************************************************************)
UpperChars == <<"A", "B", "C", "D", "E", "F", "G", "H", "I", "J", "K", "L", "M", "N", "O", "P", "Q", "R", "S", "T", "U", "V", "W", "X", "Y", "Z">>
LowerChars == <<"a", "b", "c", "d", "e", "f", "g", "h", "i", "j", "k", "l", "m", "n", "o", "p", "q", "r", "s", "t", "u", "v", "w", "x", "y", "z">>
DigitChars == <<"0", "1", "2", "3", "4", "5", "6", "7", "8", "9">>

IndexIn(chars, ch) == IF \E i \in 1..Len(chars) : chars[i] = ch
                      THEN CHOOSE i \in 1..Len(chars) : chars[i] = ch
                      ELSE 0

\* String.prototype.toLowerCase
ToLowerCase(s) == [i \in 1..Len(s) |->
                    IF IndexIn(UpperChars, s[i]) > 0
                    THEN LowerChars[IndexIn(UpperChars, s[i])]
                    ELSE s[i]]

\* String.prototype.startsWith
StartsWith(s, prefix) == /\ Len(s) >= Len(prefix)
                         /\ SubSeq(s, 1, Len(prefix)) = prefix

IsDigit(ch) == IndexIn(DigitChars, ch) > 0
DigitVal(ch) == IndexIn(DigitChars, ch) - 1

\* Value of a hexadecimal digit, -1 for any other character.
HexVal(ch) == IF IsDigit(ch) THEN DigitVal(ch)
              ELSE IF IndexIn(<<"a", "b", "c", "d", "e", "f">>, ch) > 0 THEN 9 + IndexIn(<<"a", "b", "c", "d", "e", "f">>, ch)
              ELSE IF IndexIn(<<"A", "B", "C", "D", "E", "F">>, ch) > 0 THEN 9 + IndexIn(<<"A", "B", "C", "D", "E", "F">>, ch)
              ELSE -1

RECURSIVE NatToText(_)
NatToText(n) == IF n < 10 THEN <<DigitChars[n + 1]>>
                ELSE NatToText(n \div 10) \o <<DigitChars[(n % 10) + 1]>>

\* Number to text, as a template literal or JSON.stringify renders an integer.
IntToText(n) == IF n < 0 THEN <<"-">> \o NatToText(-n) ELSE NatToText(n)

RECURSIVE SkipWs(_, _)
SkipWs(s, i) == IF i <= Len(s) /\ s[i] \in {" ", "\t"} THEN SkipWs(s, i + 1) ELSE i

\* Position after the longest run of digits of the radix starting at i.
RECURSIVE ScanDigits(_, _, _)
ScanDigits(s, i, radix) ==
    IF i <= Len(s) /\ HexVal(s[i]) >= 0 /\ HexVal(s[i]) < radix
    THEN ScanDigits(s, i + 1, radix)
    ELSE i

\* Value of the digits s[i..j-1] in the radix.
RECURSIVE DigitsValue(_, _, _, _)
DigitsValue(s, i, j, radix) ==
    IF j <= i THEN 0
    ELSE DigitsValue(s, i, j - 1, radix) * radix + HexVal(s[j - 1])

\* Number.parseInt(s): leading white space, a sign, a 0x prefix, then the
\* longest run of digits; None is NaN.
ParseInt(s) ==
    LET i0    == SkipWs(s, 1)
        neg   == i0 <= Len(s) /\ s[i0] = "-"
        i1    == IF i0 <= Len(s) /\ s[i0] \in {"-", "+"} THEN i0 + 1 ELSE i0
        hex   == /\ i1 + 1 <= Len(s)
                 /\ s[i1] = "0"
                 /\ s[i1 + 1] \in {"x", "X"}
        radix == IF hex THEN 16 ELSE 10
        i2    == IF hex THEN i1 + 2 ELSE i1
        j     == ScanDigits(s, i2, radix)
        v     == DigitsValue(s, i2, j, radix)
    IN  IF j = i2 THEN None ELSE Some(IF neg THEN -v ELSE v)

(***************************************************************************)
(* JSON values and the platform's JSON.parse / JSON.stringify, over the    *)
(* characters the model's bodies are drawn from: the literals null, true   *)
(* and false, integers, strings whose only escapes are \" \\ and \/,       *)
(* arrays, objects with non-numeric keys, and the space as white space.    *)
(* An object is the sequence of its members in insertion order.            *)
(***************************************************************************)
JNull == [t |-> "null"]
JBool(b) == [t |-> "boolean", b |-> b]
JNum(n) == [t |-> "number", n |-> n]
JStr(s) == [t |-> "string", s |-> s]
JArr(items) == [t |-> "array", items |-> items]
JObj(members) == [t |-> "object", members |-> members]
\* The value undefined.
JUndefined == [t |-> "undefined"]
\* An opaque binary payload (a Blob) holding the given bytes.
JBlob(bytes) == [t |-> "blob", bytes |-> bytes]

Member(k, v) == [k |-> k, v |-> v]

\* The typeof operator.
TypeOf(v) == IF v.t \in {"null", "array", "object", "blob"} THEN "object" ELSE v.t

HasMember(members, k) == \E i \in 1..Len(members) : members[i].k = k
MemberIndex(members, k) == CHOOSE i \in 1..Len(members) : members[i].k = k

\* Assignment obj[k] = v: a repeated key keeps its place and takes the new value.
PutMember(members, k, v) ==
    IF HasMember(members, k)
    THEN [members EXCEPT ![MemberIndex(members, k)] = Member(k, v)]
    ELSE Append(members, Member(k, v))

\* Property read v[k] of a non-null value, for a key that is no array index.
GetProp(v, k) ==
    IF v.t = "object" /\ HasMember(v.members, k)
    THEN v.members[MemberIndex(v.members, k)].v
    ELSE JUndefined

ParseFail == [ok |-> FALSE, val |-> JNull, pos |-> 0]
ParseOk(v, p) == [ok |-> TRUE, val |-> v, pos |-> p]

HasLiteral(s, i, word) == /\ i + Len(word) - 1 <= Len(s)
                          /\ SubSeq(s, i, i + Len(word) - 1) = word

\* The characters of a string from position i (after the opening quote) to
\* its closing quote; val is the text, pos the position after the quote.
RECURSIVE ParseString(_, _, _)
ParseString(s, i, acc) ==
    IF i > Len(s) THEN ParseFail
    ELSE IF s[i] = "\"" THEN ParseOk(acc, i + 1)
    ELSE IF s[i] = "\\"
         THEN IF i + 1 <= Len(s) /\ s[i + 1] \in {"\"", "\\", "/"}
              THEN ParseString(s, i + 2, Append(acc, s[i + 1]))
              ELSE ParseFail
    ELSE ParseString(s, i + 1, Append(acc, s[i]))

\* An integer at position i: an optional minus, then 0 or a run of digits
\* that does not start with 0.
ParseNumber(s, i) ==
    LET neg == s[i] = "-"
        i1  == IF neg THEN i + 1 ELSE i
        j   == ScanDigits(s, i1, 10)
        v   == DigitsValue(s, i1, j, 10)
    IN  IF j = i1 THEN ParseFail
        ELSE IF s[i1] = "0" THEN ParseOk(JNum(0), i1 + 1)
        ELSE ParseOk(JNum(IF neg THEN -v ELSE v), j)

RECURSIVE ParseValue(_, _)
RECURSIVE ParseElements(_, _, _)
RECURSIVE ParseMembers(_, _, _)

\* The elements of an array from position i, where a value is expected.
ParseElements(s, i, acc) ==
    LET r == ParseValue(s, i)
        j == SkipWs(s, r.pos)
    IN  IF ~r.ok \/ j > Len(s) THEN ParseFail
        ELSE IF s[j] = "]" THEN ParseOk(JArr(Append(acc, r.val)), j + 1)
        ELSE IF s[j] = "," THEN ParseElements(s, j + 1, Append(acc, r.val))
        ELSE ParseFail

\* The members of an object from position i, where a key is expected.
ParseMembers(s, i, acc) ==
    LET i1 == SkipWs(s, i)
        k  == ParseString(s, i1 + 1, <<>>)
        i2 == SkipWs(s, k.pos)
        r  == ParseValue(s, i2 + 1)
        j  == SkipWs(s, r.pos)
    IN  IF i1 > Len(s) \/ s[i1] # "\"" THEN ParseFail
        ELSE IF ~k.ok \/ i2 > Len(s) THEN ParseFail
        ELSE IF s[i2] # ":" THEN ParseFail
        ELSE IF ~r.ok \/ j > Len(s) THEN ParseFail
        ELSE IF s[j] = "}" THEN ParseOk(JObj(PutMember(acc, k.val, r.val)), j + 1)
        ELSE IF s[j] = "," THEN ParseMembers(s, j + 1, PutMember(acc, k.val, r.val))
        ELSE ParseFail

ParseValue(s, i0) ==
    LET i == SkipWs(s, i0)
    IN  IF i > Len(s) THEN ParseFail
        ELSE IF HasLiteral(s, i, <<"n", "u", "l", "l">>) THEN ParseOk(JNull, i + 4)
        ELSE IF HasLiteral(s, i, <<"t", "r", "u", "e">>) THEN ParseOk(JBool(TRUE), i + 4)
        ELSE IF HasLiteral(s, i, <<"f", "a", "l", "s", "e">>) THEN ParseOk(JBool(FALSE), i + 5)
        ELSE IF s[i] = "-" \/ IsDigit(s[i]) THEN ParseNumber(s, i)
        ELSE IF s[i] = "\"" THEN
            LET r == ParseString(s, i + 1, <<>>)
            IN  IF r.ok THEN ParseOk(JStr(r.val), r.pos) ELSE ParseFail
        ELSE IF s[i] = "[" THEN
            LET j == SkipWs(s, i + 1)
            IN  IF j <= Len(s) /\ s[j] = "]" THEN ParseOk(JArr(<<>>), j + 1)
                ELSE ParseElements(s, j, <<>>)
        ELSE IF s[i] = "{" THEN
            LET j == SkipWs(s, i + 1)
            IN  IF j <= Len(s) /\ s[j] = "}" THEN ParseOk(JObj(<<>>), j + 1)
                ELSE ParseMembers(s, j, <<>>)
        ELSE ParseFail

\* JSON.parse(text): ok is FALSE where it throws SyntaxError.
JsonParse(text) ==
    LET r == ParseValue(text, 1)
    IN  IF r.ok /\ SkipWs(text, r.pos) > Len(text)
        THEN [ok |-> TRUE, val |-> r.val]
        ELSE [ok |-> FALSE, val |-> JNull]

RECURSIVE EscapeText(_)
EscapeText(s) ==
    IF s = <<>> THEN <<>>
    ELSE (IF Head(s) \in {"\"", "\\"} THEN <<"\\", Head(s)>> ELSE <<Head(s)>>)
         \o EscapeText(Tail(s))

QuoteText(s) == <<"\"">> \o EscapeText(s) \o <<"\"">>

RECURSIVE JsonStringify(_)
RECURSIVE StringifyItems(_, _)
RECURSIVE StringifyMembers(_, _)

StringifyItems(items, i) ==
    IF i > Len(items) THEN <<>>
    ELSE (IF i > 1 THEN <<",">> ELSE <<>>)
         \o JsonStringify(items[i]) \o StringifyItems(items, i + 1)

StringifyMembers(members, i) ==
    IF i > Len(members) THEN <<>>
    ELSE (IF i > 1 THEN <<",">> ELSE <<>>)
         \o QuoteText(members[i].k) \o <<":">> \o JsonStringify(members[i].v)
         \o StringifyMembers(members, i + 1)

\* JSON.stringify(v).  A Blob has no enumerable property of its own.
JsonStringify(v) ==
    CASE v.t = "null"    -> <<"n", "u", "l", "l">>
      [] v.t = "boolean" -> (IF v.b THEN <<"t", "r", "u", "e">> ELSE <<"f", "a", "l", "s", "e">>)
      [] v.t = "number"  -> IntToText(v.n)
      [] v.t = "string"  -> QuoteText(v.s)
      [] v.t = "array"   -> <<"[">> \o StringifyItems(v.items, 1) \o <<"]">>
      [] v.t = "object"  -> <<"{">> \o StringifyMembers(v.members, 1) \o <<"}">>
      [] v.t = "blob"    -> <<"{", "}">>

(***************************************************************************)
(* The error classes and the results of a call.                            *)
(***************************************************************************)
TimeoutMessage == <<"E", "r", "r", "o", "r", " ", "t", "a", "l", "k", "i", "n", "g", " ", "t", "o", " ", "s", "e", "r", "v", "e", "r", ".", " ", " ", "P", "l", "e", "a", "s", "e", " ", "t", "r", "y", " ", "a", "g", "a", "i", "n", ".">>
NetworkMessage == <<"E", "r", "r", "o", "r", " ", "c", "o", "n", "n", "e", "c", "t", "i", "n", "g", " ", "t", "o", " ", "s", "e", "r", "v", "e", "r", ".", " ", " ", "P", "l", "e", "a", "s", "e", " ", "c", "h", "e", "c", "k", " ", "y", "o", "u", "r", " ", "c", "o", "n", "n", "e", "c", "t", "i", "o", "n", ".">>
ServerErrorPrefix == <<"E", "r", "r", "o", "r", " ", "t", "a", "l", "k", "i", "n", "g", " ", "t", "o", " ", "s", "e", "r", "v", "e", "r", ":", " ">>

Result(kind, value, message, status) ==
    [kind |-> kind, value |-> value, message |-> message, status |-> status]

\* The call has not ended.
Pending == Result("pending", JUndefined, <<>>, None)
\* doRpc returned the value.
Returned(v) == Result("return", v, <<>>, None)
TimeoutError == Result("TimeoutError", JUndefined, TimeoutMessage, None)
NetworkError == Result("NetworkError", JUndefined, NetworkMessage, None)
UserError(message, status) == Result("UserError", JUndefined, message, Some(status))
\* The status is optional: None where the constructor is given none.
ServerError(message, status) ==
    Result("ServerError", JUndefined, ServerErrorPrefix \o message, status)
\* The TypeError the platform throws on a property read of null.
NullPropertyTypeError ==
    Result("TypeError", JUndefined,
           <<"C", "a", "n", "n", "o", "t", " ", "r", "e", "a", "d", " ", "p", "r", "o", "p", "e", "r", "t", "i", "e", "s", " ", "o", "f", " ", "n", "u", "l", "l", " ", "(", "r", "e", "a", "d", "i", "n", "g", " ", "'", "u", "s", "e", "r", "_", "e", "r", "r", "o", "r", "_", "m", "e", "s", "s", "a", "g", "e", "'", ")">>, None)

(***************************************************************************)
(* doFetch: the request it builds.                                         *)
(***************************************************************************)
DefaultTimeoutMs == 5000

\* opts?.headers
OptsHeaders(opts) == IF opts = None THEN None ELSE opts[1].headers

\* opts?.timeout_ms ?? 5000
TimeoutMs(opts) ==
    IF opts = None \/ opts[1].timeout_ms = None
    THEN DefaultTimeoutMs
    ELSE opts[1].timeout_ms[1]

\* {...base, ...headers}: the members of headers assigned in order onto base.
RECURSIVE Spread(_, _)
Spread(base, headers) ==
    IF headers = <<>> THEN base
    ELSE Spread(PutMember(base, Head(headers).k, Head(headers).v), Tail(headers))

\* body != undefined (loose inequality: null equals undefined)
BodyPresent(body) == body.t \notin {"undefined", "null"}

\* RequestOptions with the default content-type spread over the caller's headers.
RequestOptionsDefaultWins(method, body, opts) ==
    [ cache       |-> "no-store",
      credentials |-> "omit",
      redirect    |-> "error",
      method      |-> method,
      body        |-> IF BodyPresent(body) THEN Some(JsonStringify(body)) ELSE None,
      headers     |-> IF BodyPresent(body)
                      THEN Some(Spread(IF OptsHeaders(opts) = None THEN <<>>
                                       ELSE OptsHeaders(opts)[1],
                                       <<Member("content-type", "application/json")>>))
                      ELSE OptsHeaders(opts) ]

\* The RequestInit handed to fetch.
RequestOptions(method, body, opts) ==
    [ cache       |-> "no-store",
      credentials |-> "omit",
      redirect    |-> "error",
      method      |-> method,
      body        |-> IF BodyPresent(body) THEN Some(JsonStringify(body)) ELSE None,
      headers     |-> IF BodyPresent(body)
                      THEN Some(Spread(<<Member("content-type", "application/json")>>,
                                       IF OptsHeaders(opts) = None THEN <<>>
                                       ELSE OptsHeaders(opts)[1]))
                      ELSE OptsHeaders(opts) ]

\* DoFetchCatch with its branches exchanged.
DoFetchCatchSwapped(timedOut) == IF timedOut THEN NetworkError ELSE TimeoutError

\* The catch clause of doFetch: the error thrown for a rejected fetch.
DoFetchCatch(timedOut) == IF timedOut THEN TimeoutError ELSE NetworkError

(***************************************************************************)
(* The response as the code reads it.                                      *)
(***************************************************************************)
AppJson == <<"a", "p", "p", "l", "i", "c", "a", "t", "i", "o", "n", "/", "j", "s", "o", "n">>
TextPlain == <<"t", "e", "x", "t", "/", "p", "l", "a", "i", "n">>
UserErrorKey == <<"u", "s", "e", "r", "_", "e", "r", "r", "o", "r", "_", "m", "e", "s", "s", "a", "g", "e">>

\* ContentTypeHeader without the conversion to lower case.
ContentTypeHeaderCaseSensitive(res) ==
    IF res.contentType = None THEN <<>> ELSE res.contentType[1]

\* contentTypeHeader
ContentTypeHeader(res) ==
    ToLowerCase(IF res.contentType = None THEN <<>> ELSE res.contentType[1])

\* HasBody with >= in place of >.
HasBodyZeroCounts(res) ==
    LET contentLength == ParseInt(IF res.contentLength = None THEN <<"0">>
                                  ELSE res.contentLength[1])
    IN  contentLength # None /\ contentLength[1] >= 0

\* hasBody: a comparison with NaN is false.
HasBody(res) ==
    LET contentLength == ParseInt(IF res.contentLength = None THEN <<"0">>
                                  ELSE res.contentLength[1])
    IN  contentLength # None /\ contentLength[1] > 0

\* Response.json(): a failed read rejects with a TypeError, a body that is no
\* JSON text with a SyntaxError.
ResJson(res, readFails) ==
    IF readFails THEN [kind |-> "TypeError"]
    ELSE IF JsonParse(res.body).ok
         THEN [kind |-> "value", val |-> JsonParse(res.body).val]
         ELSE [kind |-> "SyntaxError"]

\* Response.text()
ResText(res, readFails) ==
    IF readFails THEN [kind |-> "TypeError"]
    ELSE [kind |-> "text", text |-> res.body]

(***************************************************************************)
(* The classification, cut at its awaits.  A step is where the call stands *)
(* after a run of synchronous code: ended with a result, or awaiting a     *)
(* read of the body that it has just started.                              *)
(***************************************************************************)
Done(result) == [pc |-> "done", outcome |-> result, reads |-> <<>>]
Await(pc, read) == [pc |-> pc, outcome |-> Pending, reads |-> <<read>>]

\* DoRpcAfterText that leaves the text out of the message.
DoRpcAfterTextDropsText(res, responseText) ==
    Done(ServerError(IntToText(res.status) \o <<" ">> \o res.statusText, Some(res.status)))

\* DoRpcAfterText that gives its ServerErrors no status.
DoRpcAfterTextNoStatus(res, responseText) ==
    IF responseText # None
    THEN Done(ServerError(IntToText(res.status) \o <<" ">> \o res.statusText
                            \o <<",", " ">> \o responseText[1],
                          None))
    ELSE Done(ServerError(IntToText(res.status) \o <<" ">> \o res.statusText, None))

\* doRpc from the end of tryReadText to its end.
DoRpcAfterText(res, responseText) ==
    IF responseText # None
    THEN Done(ServerError(IntToText(res.status) \o <<" ">> \o res.statusText
                            \o <<",", " ">> \o responseText[1],
                          Some(res.status)))
    ELSE Done(ServerError(IntToText(res.status) \o <<" ">> \o res.statusText,
                          Some(res.status)))

\* TryReadTextBegin that reads the body whatever its content-type.
TryReadTextBeginAnyType(res) ==
    IF ~HasBody(res) THEN DoRpcAfterText(res, None)
    ELSE Await("tryReadText", "text")

\* tryReadText up to its await.
TryReadTextBegin(res) ==
    IF ~HasBody(res) THEN DoRpcAfterText(res, None)
    ELSE IF ~StartsWith(ContentTypeHeader(res), TextPlain) THEN DoRpcAfterText(res, None)
    ELSE Await("tryReadText", "text")

\* tryReadText after its await.
TryReadTextEnd(t) == IF t.kind = "text" THEN Some(t.text) ELSE None

\* DoRpcAfterJson that does not look for user_error_message.
DoRpcAfterJsonSkipsUserError(res, responseJson) == TryReadTextBegin(res)

\* doRpc from the end of tryReadJsonObject to the call of tryReadText.
DoRpcAfterJson(res, responseJson) ==
    IF responseJson.t # "undefined"
    THEN IF responseJson.t = "null" THEN Done(NullPropertyTypeError)
         ELSE IF TypeOf(GetProp(responseJson, UserErrorKey)) = "string"
              THEN Done(UserError(GetProp(responseJson, UserErrorKey).s, res.status))
              ELSE TryReadTextBegin(res)
    ELSE TryReadTextBegin(res)

\* tryReadJsonObject up to its await.
TryReadJsonObjectBegin(res) ==
    IF ~HasBody(res) THEN DoRpcAfterJson(res, JUndefined)
    ELSE IF ~StartsWith(ContentTypeHeader(res), AppJson) THEN DoRpcAfterJson(res, JUndefined)
    ELSE Await("tryReadJsonObject", "json")

\* tryReadJsonObject after its await.
TryReadJsonObjectEnd(j) ==
    IF j.kind # "value" THEN JUndefined
    ELSE IF TypeOf(j.val) # "object" THEN JUndefined
    ELSE j.val

\* ReadJsonObjectBegin that reports the content-type as the server wrote it.
ReadJsonObjectBeginRawType(res) ==
    IF ~StartsWith(ContentTypeHeader(res), AppJson)
    THEN Done(ServerError(<<"s", "e", "r", "v", "e", "r", " ", "r", "e", "s", "p", "o", "n", "s", "e", " ", "c", "o", "n", "t", "e", "n", "t", "-", "t", "y", "p", "e", " ", "i", "s", " ", "n", "o", "t", " ", "j", "s", "o", "n", ":", " ">>
                            \o QuoteText(IF res.contentType = None THEN <<>>
                                          ELSE res.contentType[1]),
                          None))
    ELSE Await("readJsonObject", "json")

\* readJsonObject up to its await.
ReadJsonObjectBegin(res) ==
    IF ~StartsWith(ContentTypeHeader(res), AppJson)
    THEN Done(ServerError(<<"s", "e", "r", "v", "e", "r", " ", "r", "e", "s", "p", "o", "n", "s", "e", " ", "c", "o", "n", "t", "e", "n", "t", "-", "t", "y", "p", "e", " ", "i", "s", " ", "n", "o", "t", " ", "j", "s", "o", "n", ":", " ">>
                            \o QuoteText(ContentTypeHeader(res)),
                          None))
    ELSE Await("readJsonObject", "json")

\* ReadJsonObjectEnd that takes every failure of res.json() for a syntax error.
ReadJsonObjectEndAllMalformed(j) ==
    IF j.kind # "value"
    THEN ServerError(<<"s", "e", "r", "v", "e", "r", " ", "r", "e", "t", "u", "r", "n", "e", "d", " ", "m", "a", "l", "f", "o", "r", "m", "e", "d", " ", "j", "s", "o", "n", " ", "d", "a", "t", "a">>, None)
    ELSE IF TypeOf(j.val) # "object"
         THEN ServerError(<<"s", "e", "r", "v", "e", "r", " ", "r", "e", "s", "p", "o", "n", "s", "e", " ", "i", "s", " ", "n", "o", "t", " ", "a", " ", "J", "S", "O", "N", " ", "o", "b", "j", "e", "c", "t", ":", " ">>
                            \o JsonStringify(j.val),
                          None)
         ELSE Returned(j.val)

\* readJsonObject after its await.
ReadJsonObjectEnd(j) ==
    IF j.kind = "SyntaxError"
    THEN ServerError(<<"s", "e", "r", "v", "e", "r", " ", "r", "e", "t", "u", "r", "n", "e", "d", " ", "m", "a", "l", "f", "o", "r", "m", "e", "d", " ", "j", "s", "o", "n", " ", "d", "a", "t", "a">>, None)
    ELSE IF j.kind = "TypeError" THEN NetworkError
    ELSE IF TypeOf(j.val) # "object"
         THEN ServerError(<<"s", "e", "r", "v", "e", "r", " ", "r", "e", "s", "p", "o", "n", "s", "e", " ", "i", "s", " ", "n", "o", "t", " ", "a", " ", "J", "S", "O", "N", " ", "o", "b", "j", "e", "c", "t", ":", " ">>
                            \o JsonStringify(j.val),
                          None)
         ELSE Returned(j.val)

\* doRpc from the response of doFetch to its first await.
DoRpcOnResponse(res) ==
    IF 200 <= res.status /\ res.status <= 299
    THEN IF ~HasBody(res) THEN Done(Returned(JObj(<<>>)))
         ELSE ReadJsonObjectBegin(res)
    ELSE TryReadJsonObjectBegin(res)

(***************************************************************************)
(* The inputs: the arguments of a call and the responses a server can send.*)
(***************************************************************************)
Calls == {1, 2}

RequestBodies ==
    { JUndefined, JNull, JObj(<<Member(<<"a">>, JNum(1))>>), JBlob(<<"a", "1">>) }

OptsSet ==
    { None,
      Some([timeout_ms |-> Some(100), headers |-> Some(<<Member("header1", "val1")>>)]),
      Some([timeout_ms |-> None, headers |-> Some(<<Member("content-type", "text/x")>>)]),
      Some([timeout_ms |-> None,
            headers |-> Some(<<Member("header1", "val1"), Member("Content-Type", "text/x")>>)]) }

CallInputs ==
    {[method |-> "GET", body |-> JUndefined, opts |-> o] : o \in OptsSet}
    \cup {[method |-> "POST", body |-> b, opts |-> None] : b \in RequestBodies}
    \cup {[method |-> "POST", body |-> JObj(<<Member(<<"a">>, JNum(1))>>), opts |-> o] :
            o \in OptsSet}

Statuses == {200, 299, 300, 400, 503}

StatusTextOf(status) ==
    CASE status = 200 -> <<"O", "K">>
      [] status = 300 -> <<"M", "u", "l", "t", "i", "p", "l", "e", " ", "C", "h", "o", "i", "c", "e", "s">>
      [] status = 400 -> <<"B", "a", "d", " ", "R", "e", "q", "u", "e", "s", "t">>
      [] status = 503 -> <<"S", "e", "r", "v", "i", "c", "e", " ", "U", "n", "a", "v", "a", "i", "l", "a", "b", "l", "e">>
      [] OTHER -> <<>>

ContentTypes ==
    { None, Some(AppJson), Some(<<"A", "p", "p", "l", "i", "c", "a", "t", "i", "o", "n", "/", "J", "S", "O", "N", ";", " ", "c", "h", "a", "r", "s", "e", "t", "=", "u", "t", "f", "-", "8">>), Some(TextPlain),
      Some(<<"T", "e", "x", "t", "/", "P", "l", "a", "i", "n">>), Some(<<"t", "e", "x", "t", "/", "h", "t", "m", "l">>), Some(<<"a", "p", "p", "l", "i", "c", "a", "t", "i", "o", "n", "/", "j", "s", "o">>) }

ContentLengths ==
    { None, Some(<<"0">>), Some(<<"-", "1">>), Some(<<"0", "0">>), Some(<<"5">>), Some(<<"+", "3">>), Some(<<" ", "7">>),
      Some(<<"0", "x", "1", "f">>), Some(<<"a", "b", "c">>), Some(<<>>), Some(<<"7", " ">>), Some(<<"\t", "7">>),
      Some(<<"0", "2", "9">>), Some(<<"1", "8", "4", "4", "6", "7", "4", "4", "0", "7", "3", "7", "0", "9", "5", "5", "1", "6", "1", "6">>) }

UserErrorBody == <<"{", "\"", "u", "s", "e", "r", "_", "e", "r", "r", "o", "r", "_", "m", "e", "s", "s", "a", "g", "e", "\"", ":", "\"", "e", "r", "r", "1", "\"", "}">>

NotableBodies ==
    { UserErrorBody,
      <<"{", "\"", "u", "s", "e", "r", "_", "e", "r", "r", "o", "r", "_", "m", "e", "s", "s", "a", "g", "e", "\"", ":", "1", "}">>,
      <<"{", "\"", "u", "s", "e", "r", "_", "e", "r", "r", "o", "r", "_", "m", "e", "s", "s", "a", "g", "e", "\"", ":", "\"", "a", "\"", ",", "\"", "u", "s", "e", "r", "_", "e", "r", "r", "o", "r", "_", "m", "e", "s", "s", "a", "g", "e", "\"", ":", "\"", "b", "\"", "}">>,
      <<"[", "{", "\"", "u", "s", "e", "r", "_", "e", "r", "r", "o", "r", "_", "m", "e", "s", "s", "a", "g", "e", "\"", ":", "\"", "e", "r", "r", "1", "\"", "}", "]">>,
      <<" ", "{", "\"", "a", "\"", " ", ":", " ", "[", "1", ",", " ", "-", "2", "]", "}", " ">>,
      <<"{", "\"", "a", "\"", ":", "1", "}">>,
      <<"e", "r", "r", "1">>, <<"n", "u", "l", "l">>, <<"1">>, <<"t", "r", "u", "e">>, <<"\"", "s", "\"">>, <<"$">>, <<"{", "\"", "a">>, <<>> }

BodyAlphabet == {"1", "[", "]", "{", "}", "\""}

RECURSIVE TextsOfLen(_)
TextsOfLen(n) ==
    IF n = 0 THEN {<<>>}
    ELSE {Append(s, ch) : s \in TextsOfLen(n - 1), ch \in BodyAlphabet}

GeneratedBodies == UNION {TextsOfLen(n) : n \in 1..MaxBodyLen}

KeyNames == <<<<"a">>, UserErrorKey, <<"b">>, <<"c">>>>
MemberValues == {JNum(1), JStr(<<"x", "\"", "y">>), JNull}

RECURSIVE MembersOfSize(_)
MembersOfSize(n) ==
    IF n = 0 THEN {<<>>}
    ELSE {Append(m, Member(KeyNames[n], v)) : m \in MembersOfSize(n - 1), v \in MemberValues}

\* The JSON objects whose encodings servers send.
RoundTripObjects ==
    {JObj(m) : m \in UNION {MembersOfSize(n) : n \in 0..MaxMembers}}
    \cup { JObj(<<Member(<<"a">>, JArr(<<JNum(-12), JBool(FALSE), JObj(<<>>)>>))>>),
           JObj(<<Member(<<"b">>, JObj(<<Member(<<"a">>, JStr(<<>>))>>))>>) }

\* The content-length header of a body sent whole.
LengthOf(body) == Some(IntToText(Len(body)))

Response(status, contentType, contentLength, body, read) ==
    [ status        |-> status,
      statusText    |-> StatusTextOf(status),
      contentType   |-> contentType,
      contentLength |-> contentLength,
      body          |-> body,
      read          |-> read ]

\* The responses servers write.  read says how the body arrives once the
\* headers have: whole ("ok"), cut off by the end of the connection
\* ("error"), or stopped with the connection kept open ("stall").
Responses ==
    {Response(s, ct, cl, UserErrorBody, "ok") :
        s \in Statuses, ct \in ContentTypes, cl \in ContentLengths}
    \cup {Response(s, ct, LengthOf(b), b, "ok") :
        s \in Statuses, ct \in ContentTypes, b \in NotableBodies}
    \cup {Response(s, ct, LengthOf(b), b, "ok") :
        s \in {200, 400}, ct \in {Some(AppJson), Some(TextPlain)}, b \in GeneratedBodies}
    \cup {Response(s, ct, LengthOf(JsonStringify(x)), JsonStringify(x), "ok") :
        s \in {200, 299, 400},
        ct \in {Some(AppJson), Some(<<"A", "p", "p", "l", "i", "c", "a", "t", "i", "o", "n", "/", "J", "S", "O", "N", ";", " ", "c", "h", "a", "r", "s", "e", "t", "=", "u", "t", "f", "-", "8">>)},
        x \in RoundTripObjects}
    \cup {Response(s, ct, Some(<<"1", "0">>), b, r) :
        s \in Statuses, ct \in ContentTypes, b \in {<<"{", "\"", "a">>, <<"e">>}, r \in {"error", "stall"}}

\* The arguments and the responses of calls that run side by side.
ConcurrentInputs ==
    { [method |-> "GET", body |-> JUndefined, opts |-> None],
      [method |-> "POST", body |-> JObj(<<Member(<<"a">>, JNum(1))>>),
       opts |-> Some([timeout_ms |-> Some(100),
                      headers |-> Some(<<Member("header1", "val1")>>)])] }

ConcurrentResponses ==
    { Response(200, Some(AppJson), LengthOf(<<"{", "\"", "a", "\"", ":", "1", "}">>), <<"{", "\"", "a", "\"", ":", "1", "}">>, "ok"),
      Response(200, Some(AppJson), Some(<<"1", "0">>), <<"{", "\"", "a">>, "error"),
      Response(200, Some(AppJson), Some(<<"1", "0">>), <<"{", "\"", "a">>, "stall"),
      Response(299, None, None, <<>>, "ok"),
      Response(400, Some(AppJson), LengthOf(UserErrorBody), UserErrorBody, "ok"),
      Response(400, Some(TextPlain), LengthOf(<<"e", "r", "r", "1">>), <<"e", "r", "r", "1">>, "ok"),
      Response(503, Some(<<"t", "e", "x", "t", "/", "h", "t", "m", "l">>), LengthOf(<<"e", "r", "r", "1">>), <<"e", "r", "r", "1">>, "ok") }

\* How a fetch fails without a response.
TransportFailures == {"disconnect", "non-http", "incomplete-headers", "redirect"}

\* A header value as fetch delivers it: without the spaces and tabs before
\* it, with the spaces after it.
RECURSIVE TrimOws(_)
TrimOws(s) ==
    IF s # <<>> /\ Head(s) \in {" ", "\t"} THEN TrimOws(Tail(s)) ELSE s

\* The digits a content-length starts with, and what follows them.
LengthDigits(v) == SubSeq(v, 1, ScanDigits(v, 1, 10) - 1)
AfterLengthDigits(v) == SubSeq(v, ScanDigits(v, 1, 10), Len(v))

\* A run of digits without the zeros before its first significant digit.
RECURSIVE Significant(_)
Significant(d) == IF d # <<>> /\ Head(d) = "0" THEN Significant(Tail(d)) ELSE d

\* a < b for numbers written in significant digits.
RECURSIVE DigitsLess(_, _)
DigitsLess(a, b) ==
    IF Len(a) # Len(b) THEN Len(a) < Len(b)
    ELSE IF a = <<>> THEN FALSE
    ELSE IF Head(a) # Head(b) THEN DigitVal(Head(a)) < DigitVal(Head(b))
    ELSE DigitsLess(Tail(a), Tail(b))

\* The first content-length the HTTP parser cannot hold (2^64).
ContentLengthLimit == <<"1", "8", "4", "4", "6", "7", "4", "4", "0", "7", "3", "7", "0", "9", "5", "5", "1", "6", "1", "6">>

\* fetch takes a response whose content-length is missing or a run of
\* decimal digits below 2^64 with nothing but spaces after it, and rejects
\* on any other.
ContentLengthAccepted(w) ==
    IF w.contentLength = None THEN TRUE
    ELSE LET v == TrimOws(w.contentLength[1])
         IN  /\ LengthDigits(v) # <<>>
             /\ \A i \in 1..Len(AfterLengthDigits(v)) : AfterLengthDigits(v)[i] = " "
             /\ DigitsLess(Significant(LengthDigits(v)), ContentLengthLimit)

\* The failures of fetch on the responses it does not take.
ResponseFailures(served) ==
    {"HPE_INVALID_CONTENT_LENGTH" : w \in {x \in served : ~ContentLengthAccepted(x)}}

\* The Response fetch resolves with for what the server wrote: the header
\* trimmed, the body up to the length declared, a read that succeeds once
\* that much has come and that fails when the server ended the body short
\* of it.
Delivered(w) ==
    IF w.contentLength = None THEN w
    ELSE LET v        == TrimOws(w.contentLength[1])
             declared == Significant(LengthDigits(v))
             written  == Significant(NatToText(Len(w.body)))
         IN  [w EXCEPT !.contentLength = Some(v),
                       !.body = IF DigitsLess(declared, written)
                                THEN SubSeq(w.body, 1, DigitsValue(declared, 1, Len(declared) + 1, 10))
                                ELSE w.body,
                       !.read = IF ~DigitsLess(written, declared) THEN "ok"
                                ELSE IF w.read = "ok" THEN "error"
                                ELSE w.read]

(***************************************************************************)
(* The state: one record per call of doRpc.                                *)
(***************************************************************************)
VARIABLES
    pc,             \* where the call stands: "off", "idle", "fetch",
                    \* "readJsonObject", "tryReadJsonObject", "tryReadText", "done"
    input,          \* the arguments of the call
    request,        \* the RequestInit given to fetch
    timerArmed,     \* the timeout of doFetch is set and not cleared
    timerDelay,     \* the delay the timeout was set with
    timedOut,       \* the timedOut flag of doFetch
    aborted,        \* abortController.signal.aborted
    deadlinePassed, \* timeout_ms have elapsed since the timeout was set
    fetchError,     \* the error fetch rejected with
    response,       \* the Response fetch resolved with
    bodyReads,      \* the reads of the response body started, in order
    outcome,        \* the result of the call
    probe           \* a ServerError a caller holds and the method called on it

vars == <<pc, input, request, timerArmed, timerDelay, timedOut, aborted,
          deadlinePassed, fetchError, response, bodyReads, outcome, probe>>

\* No ServerError is held.
NoProbe == [stage |-> "none", error |-> Pending, method |-> "", result |-> [kind |-> "none"]]

InitCalls(started) ==
    /\ pc = [c \in Calls |-> IF c \in started THEN "idle" ELSE "off"]
    /\ input = [c \in Calls |-> None]
    /\ request = [c \in Calls |-> None]
    /\ timerArmed = [c \in Calls |-> FALSE]
    /\ timerDelay = [c \in Calls |-> None]
    /\ timedOut = [c \in Calls |-> FALSE]
    /\ aborted = [c \in Calls |-> FALSE]
    /\ deadlinePassed = [c \in Calls |-> FALSE]
    /\ fetchError = [c \in Calls |-> None]
    /\ response = [c \in Calls |-> None]
    /\ bodyReads = [c \in Calls |-> <<>>]
    /\ outcome = [c \in Calls |-> Pending]
    /\ probe = NoProbe

\* Every call of the model is made: the calls run side by side.
Concurrent == \A c \in Calls : pc[c] # "off"

\* The arguments a call is made with and the responses a server sends,
\* fewer when two calls run side by side.
OfferedInputs == IF Concurrent THEN ConcurrentInputs ELSE CallInputs
ServedResponses == IF Concurrent THEN ConcurrentResponses ELSE Responses

\* One call is made.
Init == InitCalls({1})

\* doRpc is called: doFetch builds the request, sets the timeout and awaits fetch.
DoFetch(c) ==
    /\ pc[c] = "idle"
    /\ \E in \in OfferedInputs :
        /\ input' = [input EXCEPT ![c] = Some(in)]
        /\ request' = [request EXCEPT ![c] = Some(RequestOptions(in.method, in.body, in.opts))]
        /\ timerDelay' = [timerDelay EXCEPT ![c] = Some(TimeoutMs(in.opts))]
    /\ timerArmed' = [timerArmed EXCEPT ![c] = TRUE]
    /\ pc' = [pc EXCEPT ![c] = "fetch"]
    /\ UNCHANGED <<timedOut, aborted, deadlinePassed, fetchError, response, bodyReads, outcome, probe>>

\* TimeoutFires with timedOut a variable of the module, shared by the calls.
TimeoutFiresSharedFlag(c) ==
    /\ timerArmed[c]
    /\ deadlinePassed[c]
    /\ timedOut' = [d \in Calls |-> TRUE]
    /\ aborted' = [aborted EXCEPT ![c] = TRUE]
    /\ timerArmed' = [timerArmed EXCEPT ![c] = FALSE]
    /\ UNCHANGED <<pc, input, request, timerDelay, deadlinePassed, fetchError, response,
                   bodyReads, outcome, probe>>

\* The event loop runs the callback of the timeout, some time after the
\* deadline and while the timeout is still set: it sets timedOut and aborts.
TimeoutFires(c) ==
    /\ timerArmed[c]
    /\ deadlinePassed[c]
    /\ timedOut' = [timedOut EXCEPT ![c] = TRUE]
    /\ aborted' = [aborted EXCEPT ![c] = TRUE]
    /\ timerArmed' = [timerArmed EXCEPT ![c] = FALSE]
    /\ UNCHANGED <<pc, input, request, timerDelay, deadlinePassed, fetchError, response,
                   bodyReads, outcome, probe>>

\* timeout_ms elapse while the call is running: no code runs, the callback
\* of a timeout that is still set becomes due.
DeadlinePasses(c) ==
    /\ pc[c] \in {"fetch", "readJsonObject", "tryReadJsonObject", "tryReadText"}
    /\ ~deadlinePassed[c]
    /\ deadlinePassed' = [deadlinePassed EXCEPT ![c] = TRUE]
    /\ UNCHANGED <<pc, input, request, timerArmed, timerDelay, timedOut, aborted,
                   fetchError, response, bodyReads, outcome, probe>>

\* fetch rejects, aborted by the signal or failed by the transport; the catch
\* clause throws and the finally clause clears the timeout.
FetchRejects(c) ==
    /\ pc[c] = "fetch"
    /\ \E e \in IF aborted[c]
                THEN {[name |-> "AbortError", cause |-> "abort"]}
                ELSE {[name |-> "TypeError", cause |-> f] :
                        f \in TransportFailures \cup ResponseFailures(ServedResponses)} :
        fetchError' = [fetchError EXCEPT ![c] = Some(e)]
    /\ outcome' = [outcome EXCEPT ![c] = DoFetchCatch(timedOut[c])]
    /\ timerArmed' = [timerArmed EXCEPT ![c] = FALSE]
    /\ pc' = [pc EXCEPT ![c] = "done"]
    /\ UNCHANGED <<input, request, timerDelay, timedOut, aborted, deadlinePassed,
                   response, bodyReads, probe>>

\* The call moves to the step.
Goto(c, step) ==
    /\ pc' = [pc EXCEPT ![c] = step.pc]
    /\ outcome' = [outcome EXCEPT ![c] = step.outcome]
    /\ bodyReads' = [bodyReads EXCEPT ![c] = @ \o step.reads]

\* FetchResolves that leaves the timeout set (clearTimeout on the catch path only).
FetchResolvesLeaksTimer(c) ==
    /\ pc[c] = "fetch"
    /\ ~aborted[c]
    /\ \E w \in ServedResponses :
        /\ ContentLengthAccepted(w)
        /\ response' = [response EXCEPT ![c] = Some(Delivered(w))]
        /\ Goto(c, DoRpcOnResponse(Delivered(w)))
    /\ UNCHANGED <<input, request, timerArmed, timerDelay, timedOut, aborted, deadlinePassed,
                   fetchError, probe>>

\* fetch resolves with the response headers; the finally clause clears the
\* timeout and doRpc runs to its first await or its end.
FetchResolves(c) ==
    /\ pc[c] = "fetch"
    /\ ~aborted[c]
    /\ \E w \in ServedResponses :
        /\ ContentLengthAccepted(w)
        /\ response' = [response EXCEPT ![c] = Some(Delivered(w))]
        /\ Goto(c, DoRpcOnResponse(Delivered(w)))
    /\ timerArmed' = [timerArmed EXCEPT ![c] = FALSE]
    /\ UNCHANGED <<input, request, timerDelay, timedOut, aborted, deadlinePassed, fetchError, probe>>

\* The time after which the platform ends a read of a body that has stopped
\* coming.
BodyTimeoutMs == 300000

\* A read of the body fails when the connection ends before the body does,
\* when the body stops coming, or when an earlier read has used the body.
ReadFails(c) == response[c][1].read \in {"error", "stall"} \/ Len(bodyReads[c]) > 1

\* The read the call awaits can settle now: a body that has stopped coming
\* is given up after BodyTimeoutMs, later than a shorter timeout_ms.
ReadCanSettle(c) ==
    response[c][1].read = "stall" /\ timerDelay[c][1] < BodyTimeoutMs => deadlinePassed[c]

\* res.json() of readJsonObject settles.
ReadJsonObjectSettles(c) ==
    /\ pc[c] = "readJsonObject"
    /\ ReadCanSettle(c)
    /\ Goto(c, Done(ReadJsonObjectEnd(ResJson(response[c][1], ReadFails(c)))))
    /\ UNCHANGED <<input, request, timerArmed, timerDelay, timedOut, aborted,
                   deadlinePassed, fetchError, response, probe>>

\* res.json() of tryReadJsonObject settles.
TryReadJsonObjectSettles(c) ==
    /\ pc[c] = "tryReadJsonObject"
    /\ ReadCanSettle(c)
    /\ Goto(c, DoRpcAfterJson(response[c][1],
                              TryReadJsonObjectEnd(ResJson(response[c][1], ReadFails(c)))))
    /\ UNCHANGED <<input, request, timerArmed, timerDelay, timedOut, aborted,
                   deadlinePassed, fetchError, response, probe>>

\* res.text() of tryReadText settles.
TryReadTextSettles(c) ==
    /\ pc[c] = "tryReadText"
    /\ ReadCanSettle(c)
    /\ Goto(c, DoRpcAfterText(response[c][1],
                              TryReadTextEnd(ResText(response[c][1], ReadFails(c)))))
    /\ UNCHANGED <<input, request, timerArmed, timerDelay, timedOut, aborted,
                   deadlinePassed, fetchError, response, probe>>

Next ==
    \E c \in Calls :
        \/ DoFetch(c)
        \/ TimeoutFires(c)
        \/ DeadlinePasses(c)
        \/ FetchRejects(c)
        \/ FetchResolves(c)
        \/ ReadJsonObjectSettles(c)
        \/ TryReadJsonObjectSettles(c)
        \/ TryReadTextSettles(c)

Spec == Init /\ [][Next]_vars

\* Two calls are made and run side by side.
InitTwo == InitCalls(Calls)

SpecTwo == InitTwo /\ [][Next]_vars

(***************************************************************************)
(* A caller that holds a ServerError and calls a method on it.             *)
(***************************************************************************)
\* The status a ServerError is constructed with: undefined or a number.
ProbeStatuses == {None} \cup {Some(s) : s \in {200, 300} \cup (398..601)}

ProbeMethods == {"is400", "is500"}

\* error[method](): the class ServerError declares the field status and a
\* constructor and no method, and neither RpcError nor Error has a property
\* of these names, so error[method] is undefined and the call throws.
InvokeOnServerError(error, method) == [kind |-> "TypeError"]

\* new ServerError('err1', status)
ConstructServerError ==
    /\ probe.stage = "none"
    /\ \E status \in ProbeStatuses :
        probe' = [probe EXCEPT !.stage = "constructed",
                               !.error = ServerError(<<"e", "r", "r", "1">>, status)]
    /\ UNCHANGED <<pc, input, request, timerArmed, timerDelay, timedOut, aborted,
                   deadlinePassed, fetchError, response, bodyReads, outcome>>

\* error.is400() or error.is500()
CallServerErrorMethod ==
    /\ probe.stage = "constructed"
    /\ \E method \in ProbeMethods :
        probe' = [probe EXCEPT !.stage = "called",
                               !.method = method,
                               !.result = InvokeOnServerError(probe.error, method)]
    /\ UNCHANGED <<pc, input, request, timerArmed, timerDelay, timedOut, aborted,
                   deadlinePassed, fetchError, response, bodyReads, outcome>>

\* No call of doRpc is made: errors are constructed and probed.
InitErrors == InitCalls({})

NextErrors == ConstructServerError \/ CallServerErrorMethod

SpecErrors == InitErrors /\ [][NextErrors]_vars

(***************************************************************************)
(* Vocabulary of the properties, stated on the response as the server sent *)
(* it and not through the operators of the code.                           *)
(***************************************************************************)
\* The call has ended.
Ended(c) == pc[c] = "done"
\* The call has obtained a response.
Responded(c) == response[c] # None
Res(c) == response[c][1]

Is2xx(res) == res.status \in 200..299

IsDecimal(s) == s # <<>> /\ \A i \in 1..Len(s) : s[i] \in {"0", "1", "2", "3", "4", "5", "6", "7", "8", "9"}

\* The content-length header is a plain decimal number greater than zero.
DeclaresBody(res) ==
    /\ res.contentLength # None
    /\ IsDecimal(res.contentLength[1])
    /\ \E i \in 1..Len(res.contentLength[1]) : res.contentLength[1][i] # "0"

\* The content-length header is missing, or a decimal number that is zero or
\* negative.
DeclaresNoBody(res) ==
    \/ res.contentLength = None
    \/ /\ IsDecimal(res.contentLength[1])
       /\ \A i \in 1..Len(res.contentLength[1]) : res.contentLength[1][i] = "0"
    \/ /\ Len(res.contentLength[1]) > 1
       /\ Head(res.contentLength[1]) = "-"
       /\ IsDecimal(Tail(res.contentLength[1]))

\* The content-type header in lower case, read off the list of the model's
\* content types; the empty text when the header is missing.
LoweredType(res) ==
    IF res.contentType = None THEN <<>>
    ELSE IF res.contentType[1] = <<"A", "p", "p", "l", "i", "c", "a", "t", "i", "o", "n", "/", "J", "S", "O", "N", ";", " ", "c", "h", "a", "r", "s", "e", "t", "=", "u", "t", "f", "-", "8">>
         THEN <<"a", "p", "p", "l", "i", "c", "a", "t", "i", "o", "n", "/", "j", "s", "o", "n", ";", " ", "c", "h", "a", "r", "s", "e", "t", "=", "u", "t", "f", "-", "8">>
    ELSE IF res.contentType[1] = <<"T", "e", "x", "t", "/", "P", "l", "a", "i", "n">> THEN <<"t", "e", "x", "t", "/", "p", "l", "a", "i", "n">>
    ELSE res.contentType[1]

HasPrefix(s, p) == Len(s) >= Len(p) /\ \A i \in 1..Len(p) : s[i] = p[i]

IsJsonType(res) == HasPrefix(LoweredType(res), <<"a", "p", "p", "l", "i", "c", "a", "t", "i", "o", "n", "/", "j", "s", "o", "n">>)
IsTextType(res) == HasPrefix(LoweredType(res), <<"t", "e", "x", "t", "/", "p", "l", "a", "i", "n">>)

\* "<status> <statusText>" of the model's statuses, written out.
StatusLine(res) ==
    CASE res.status = 200 -> <<"2", "0", "0", " ", "O", "K">>
      [] res.status = 299 -> <<"2", "9", "9", " ">>
      [] res.status = 300 -> <<"3", "0", "0", " ", "M", "u", "l", "t", "i", "p", "l", "e", " ", "C", "h", "o", "i", "c", "e", "s">>
      [] res.status = 400 -> <<"4", "0", "0", " ", "B", "a", "d", " ", "R", "e", "q", "u", "e", "s", "t">>
      [] res.status = 503 -> <<"5", "0", "3", " ", "S", "e", "r", "v", "i", "c", "e", " ", "U", "n", "a", "v", "a", "i", "l", "a", "b", "l", "e">>

\* The body decodes to an object that has a string field user_error_message.
HasUserErrorMessage(res) ==
    /\ JsonParse(res.body).ok
    /\ JsonParse(res.body).val.t = "object"
    /\ \E i \in 1..Len(JsonParse(res.body).val.members) :
        /\ JsonParse(res.body).val.members[i].k = <<"u", "s", "e", "r", "_", "e", "r", "r", "o", "r", "_", "m", "e", "s", "s", "a", "g", "e">>
        /\ JsonParse(res.body).val.members[i].v.t = "string"

UserErrorMessageOf(res) ==
    LET members == JsonParse(res.body).val.members
    IN  members[CHOOSE i \in 1..Len(members) : members[i].k = <<"u", "s", "e", "r", "_", "e", "r", "r", "o", "r", "_", "m", "e", "s", "s", "a", "g", "e">>].v.s

TaxonomyKinds == {"TimeoutError", "NetworkError", "ServerError", "UserError"}

(***************************************************************************)
(* The properties.                                                         *)
(***************************************************************************)

\* C1: a call whose deadline elapsed before it ended has ended with
\* TimeoutError and with nothing else.
C1_DeadlineElapsedGivesTimeout ==
    \A c \in Calls :
        Ended(c) /\ deadlinePassed[c] => outcome[c].kind = "TimeoutError"

\* C2: when fetch has rejected, the call has ended, with NetworkError if the
\* timeout had not fired and with TimeoutError if it had, whatever error the
\* transport reported.
C2_RejectionClassifiedByTimer ==
    \A c \in Calls :
        fetchError[c] # None =>
            /\ Ended(c)
            /\ ~timedOut[c] => outcome[c] = NetworkError
            /\ timedOut[c] => outcome[c] = TimeoutError

C2_Witness ==
    /\ fetchError[1] = Some([name |-> "TypeError", cause |-> "non-http"])
    /\ ~timedOut[1]
    /\ outcome[1].kind = "NetworkError"

\* C3: a call that has ended has returned or has thrown one of the four
\* error kinds; no other exception leaves doRpc.
C3_OnlyTaxonomyErrors ==
    \A c \in Calls :
        Ended(c) => outcome[c].kind \in TaxonomyKinds \cup {"return"}

\* C4: a response outside 2xx whose declared, JSON-typed body decodes to an
\* object with a string user_error_message ends the call with UserError
\* carrying that string and the status.
C4_UserErrorHasPriority ==
    \A c \in Calls :
        ( /\ Ended(c)
          /\ Responded(c)
          /\ ~Is2xx(Res(c))
          /\ DeclaresBody(Res(c))
          /\ IsJsonType(Res(c))
          /\ Res(c).read = "ok"
          /\ HasUserErrorMessage(Res(c)) )
        => outcome[c] = UserError(UserErrorMessageOf(Res(c)), Res(c).status)

C4_Witness ==
    /\ Ended(1)
    /\ Responded(1)
    /\ Res(1).status = 400
    /\ Res(1).contentType = Some(<<"A", "p", "p", "l", "i", "c", "a", "t", "i", "o", "n", "/", "J", "S", "O", "N", ";", " ", "c", "h", "a", "r", "s", "e", "t", "=", "u", "t", "f", "-", "8">>)
    /\ Res(1).body = <<"{", "\"", "a", "\"", ":", "1", ",", "\"", "u", "s", "e", "r", "_", "e", "r", "r", "o", "r", "_", "m", "e", "s", "s", "a", "g", "e", "\"", ":", "\"", "x", "\\", "\"", "y", "\"", "}">>
    /\ outcome[1] = UserError(<<"x", "\"", "y">>, 400)

\* C5: a value that doRpc returns is a JSON object.
C5_ReturnsOnlyObjects ==
    \A c \in Calls :
        Ended(c) /\ outcome[c].kind = "return" => outcome[c].value.t = "object"

\* C6: a 2xx response that declares no body ends the call by returning the
\* empty object, with no read of the body, whatever its content-type and
\* whatever the request.
C6_NoBodyGivesEmptyObject ==
    \A c \in Calls :
        Responded(c) /\ Is2xx(Res(c)) /\ DeclaresNoBody(Res(c))
        => /\ Ended(c)
           /\ outcome[c] = Returned(JObj(<<>>))
           /\ bodyReads[c] = <<>>

C6_Witness ==
    /\ Responded(1)
    /\ input[1][1].method = "POST"
    /\ input[1][1].body.t = "object"
    /\ Res(1).status = 299
    /\ Res(1).contentType = Some(<<"t", "e", "x", "t", "/", "p", "l", "a", "i", "n">>)
    /\ Res(1).contentLength = Some(<<"0", "0">>)
    /\ outcome[1] = Returned(JObj(<<>>))

\* C7: a 2xx response with a declared, JSON-typed body that is the encoding
\* of an object ends the call by returning that object.
C7_RoundTrip ==
    \A c \in Calls :
        \A x \in RoundTripObjects :
            ( /\ Ended(c)
              /\ Responded(c)
              /\ Is2xx(Res(c))
              /\ DeclaresBody(Res(c))
              /\ IsJsonType(Res(c))
              /\ Res(c).read = "ok"
              /\ Res(c).body = JsonStringify(x) )
            => outcome[c] = Returned(x)

C7_Witness ==
    /\ Ended(1)
    /\ Responded(1)
    /\ Res(1).status = 299
    /\ Res(1).contentType = Some(<<"A", "p", "p", "l", "i", "c", "a", "t", "i", "o", "n", "/", "J", "S", "O", "N", ";", " ", "c", "h", "a", "r", "s", "e", "t", "=", "u", "t", "f", "-", "8">>)
    /\ Res(1).body = <<"{", "\"", "a", "\"", ":", "[", "-", "1", "2", ",", "f", "a", "l", "s", "e", ",", "{", "}", "]", "}">>
    /\ outcome[1] = Returned(JObj(<<Member(<<"a">>, JArr(<<JNum(-12), JBool(FALSE), JObj(<<>>)>>))>>))

\* C8 as stated: every 2xx response whose content-type is not JSON ends the
\* call with the content-type ServerError, the body unread.
C8_NonJsonTypeAlwaysServerError ==
    \A c \in Calls :
        Responded(c) /\ Is2xx(Res(c)) /\ ~IsJsonType(Res(c))
        => /\ Ended(c)
           /\ outcome[c].kind = "ServerError"
           /\ outcome[c].message =
                <<"E", "r", "r", "o", "r", " ", "t", "a", "l", "k", "i", "n", "g", " ", "t", "o", " ", "s", "e", "r", "v", "e", "r", ":", " ", "s", "e", "r", "v", "e", "r", " ", "r", "e", "s", "p", "o", "n", "s", "e", " ", "c", "o", "n", "t", "e", "n", "t", "-", "t", "y", "p", "e", " ", "i", "s", " ", "n", "o", "t", " ", "j", "s", "o", "n", ":", " ">>
                \o <<"\"">> \o LoweredType(Res(c)) \o <<"\"">>
           /\ bodyReads[c] = <<>>

\* C8 amended: a 2xx response that declares a body and whose content-type is
\* not JSON ends the call with the content-type ServerError, the body unread.
C8_NonJsonTypeWithBodyServerError ==
    \A c \in Calls :
        Responded(c) /\ Is2xx(Res(c)) /\ DeclaresBody(Res(c)) /\ ~IsJsonType(Res(c))
        => /\ Ended(c)
           /\ outcome[c].kind = "ServerError"
           /\ outcome[c].message =
                <<"E", "r", "r", "o", "r", " ", "t", "a", "l", "k", "i", "n", "g", " ", "t", "o", " ", "s", "e", "r", "v", "e", "r", ":", " ", "s", "e", "r", "v", "e", "r", " ", "r", "e", "s", "p", "o", "n", "s", "e", " ", "c", "o", "n", "t", "e", "n", "t", "-", "t", "y", "p", "e", " ", "i", "s", " ", "n", "o", "t", " ", "j", "s", "o", "n", ":", " ">>
                \o <<"\"">> \o LoweredType(Res(c)) \o <<"\"">>
           /\ bodyReads[c] = <<>>

C8_Witness ==
    /\ Responded(1)
    /\ Res(1).status = 200
    /\ Res(1).contentType = Some(<<"T", "e", "x", "t", "/", "P", "l", "a", "i", "n">>)
    /\ Res(1).body = <<"{", "\"", "a", "\"", ":", "1", "}">>
    /\ outcome[1].message =
        <<"E", "r", "r", "o", "r", " ", "t", "a", "l", "k", "i", "n", "g", " ", "t", "o", " ", "s", "e", "r", "v", "e", "r", ":", " ", "s", "e", "r", "v", "e", "r", " ", "r", "e", "s", "p", "o", "n", "s", "e", " ", "c", "o", "n", "t", "e", "n", "t", "-", "t", "y", "p", "e", " ", "i", "s", " ", "n", "o", "t", " ", "j", "s", "o", "n", ":", " ", "\"", "t", "e", "x", "t", "/", "p", "l", "a", "i", "n", "\"">>

\* C9: on the success path a body that is no JSON text ends the call with
\* the malformed-json ServerError, and a read that fails ends it with
\* NetworkError.
C9_DecodeFailureByCause ==
    \A c \in Calls :
        ( /\ Ended(c)
          /\ Responded(c)
          /\ Is2xx(Res(c))
          /\ DeclaresBody(Res(c))
          /\ IsJsonType(Res(c)) )
        => /\ Res(c).read = "ok" /\ ~JsonParse(Res(c).body).ok
              => /\ outcome[c].kind = "ServerError"
                 /\ outcome[c].message =
                      <<"E", "r", "r", "o", "r", " ", "t", "a", "l", "k", "i", "n", "g", " ", "t", "o", " ", "s", "e", "r", "v", "e", "r", ":", " ", "s", "e", "r", "v", "e", "r", " ", "r", "e", "t", "u", "r", "n", "e", "d", " ", "m", "a", "l", "f", "o", "r", "m", "e", "d", " ", "j", "s", "o", "n", " ", "d", "a", "t", "a">>
           /\ Res(c).read # "ok" => outcome[c] = NetworkError

C9_Witness ==
    /\ Ended(1)
    /\ Responded(1)
    /\ Res(1).status = 200
    /\ Res(1).contentType = Some(<<"a", "p", "p", "l", "i", "c", "a", "t", "i", "o", "n", "/", "j", "s", "o", "n">>)
    /\ Res(1).contentLength = Some(<<"1", "0">>)
    /\ Res(1).body = <<"{", "\"", "a">>
    /\ Res(1).read = "error"
    /\ outcome[1].kind = "NetworkError"

\* C10: a response outside 2xx with a declared text/plain body that is read
\* ends the call with ServerError "<status> <statusText>, <text>" and the
\* status.
C10_TextDiagnostic ==
    \A c \in Calls :
        ( /\ Ended(c)
          /\ Responded(c)
          /\ ~Is2xx(Res(c))
          /\ DeclaresBody(Res(c))
          /\ IsTextType(Res(c))
          /\ Res(c).read = "ok" )
        => /\ outcome[c].kind = "ServerError"
           /\ outcome[c].message =
                <<"E", "r", "r", "o", "r", " ", "t", "a", "l", "k", "i", "n", "g", " ", "t", "o", " ", "s", "e", "r", "v", "e", "r", ":", " ">> \o StatusLine(Res(c)) \o <<",", " ">> \o Res(c).body
           /\ outcome[c].status = Some(Res(c).status)

C10_Witness ==
    /\ Ended(1)
    /\ Responded(1)
    /\ Res(1).status = 400
    /\ Res(1).contentType = Some(<<"T", "e", "x", "t", "/", "P", "l", "a", "i", "n">>)
    /\ Res(1).body = <<"e", "r", "r", "1">>
    /\ outcome[1].message = <<"E", "r", "r", "o", "r", " ", "t", "a", "l", "k", "i", "n", "g", " ", "t", "o", " ", "s", "e", "r", "v", "e", "r", ":", " ", "4", "0", "0", " ", "B", "a", "d", " ", "R", "e", "q", "u", "e", "s", "t", ",", " ", "e", "r", "r", "1">>
    /\ outcome[1].status = Some(400)

\* The response carries nothing the failure path can use: no declared body,
\* a JSON-typed body that is unread, malformed, no object or without a string
\* user_error_message, a text/plain body that is unread, or a declared body
\* of any other content-type.
NoUsableDiagnostic(res) ==
    \/ DeclaresNoBody(res)
    \/ /\ DeclaresBody(res)
       /\ IsJsonType(res)
       /\ \/ res.read # "ok"
          \/ res.read = "ok" /\ ~HasUserErrorMessage(res)
    \/ /\ DeclaresBody(res)
       /\ IsTextType(res)
       /\ res.read # "ok"
    \/ /\ DeclaresBody(res)
       /\ ~IsJsonType(res)
       /\ ~IsTextType(res)

\* C11: a response outside 2xx with no usable diagnostic body ends the call
\* with ServerError "<status> <statusText>" and the status.
C11_BareStatusError ==
    \A c \in Calls :
        Ended(c) /\ Responded(c) /\ ~Is2xx(Res(c)) /\ NoUsableDiagnostic(Res(c))
        => /\ outcome[c].kind = "ServerError"
           /\ outcome[c].message = <<"E", "r", "r", "o", "r", " ", "t", "a", "l", "k", "i", "n", "g", " ", "t", "o", " ", "s", "e", "r", "v", "e", "r", ":", " ">> \o StatusLine(Res(c))
           /\ outcome[c].status = Some(Res(c).status)


\* C12: is400() is true exactly for a status in 400..499, is500() exactly for
\* a status in 500..599, and both are false for an undefined status.
C12_RangePredicates ==
    probe.stage = "called" =>
        /\ probe.method = "is400" =>
            probe.result = [kind |-> "value",
                            value |-> /\ probe.error.status # None
                                      /\ probe.error.status[1] \in 400..499]
        /\ probe.method = "is500" =>
            probe.result = [kind |-> "value",
                            value |-> /\ probe.error.status # None
                                      /\ probe.error.status[1] \in 500..599]

\* The headers the caller passed, None when it passed none.
CallerHeaders(c) == IF input[c][1].opts = None THEN None ELSE input[c][1].opts[1].headers

\* C13: a Blob body is sent as its own bytes, and the request has the
\* caller's headers and no other.
C13_BlobSentAsIs ==
    \A c \in Calls :
        request[c] # None /\ input[c][1].body.t = "blob"
        => /\ request[c][1].body = Some(input[c][1].body.bytes)
           /\ request[c][1].headers = CallerHeaders(c)

\* C14 as stated: every ServerError thrown after a response was obtained
\* carries the status of the response.
C14_ServerErrorHasStatus ==
    \A c \in Calls :
        Ended(c) /\ Responded(c) /\ outcome[c].kind = "ServerError"
        => outcome[c].status = Some(Res(c).status)

\* C14 amended: a ServerError thrown for a response outside 2xx carries the
\* status of the response, and a ServerError of the success path carries no
\* status.
C14_StatusOnFailurePathOnly ==
    \A c \in Calls :
        Ended(c) /\ Responded(c) /\ outcome[c].kind = "ServerError"
        => /\ ~Is2xx(Res(c)) => outcome[c].status = Some(Res(c).status)
           /\ Is2xx(Res(c)) => outcome[c].status = None

C14_Witness ==
    /\ Ended(1)
    /\ Responded(1)
    /\ Res(1).status = 503
    /\ Res(1).contentType = Some(<<"t", "e", "x", "t", "/", "h", "t", "m", "l">>)
    /\ outcome[1].kind = "ServerError"
    /\ outcome[1].status = Some(503)

\* C15: a call completes no later than its deadline fires: a call that is
\* pending once its deadline has passed has its timeout still set, the
\* callback due, or has been aborted by it, whether it awaits the response
\* or a read of the body.
C15_NeverPendingForEver ==
    \A c \in Calls :
        deadlinePassed[c] /\ pc[c] \notin {"off", "idle", "done"}
        => timerArmed[c] \/ aborted[c]

\* C16: a call that ended on a response outside 2xx ended with UserError or
\* ServerError carrying the status of the response.
C16_FailurePathNeverRaises ==
    \A c \in Calls :
        Ended(c) /\ Responded(c) /\ ~Is2xx(Res(c))
        => /\ outcome[c].kind \in {"UserError", "ServerError"}
           /\ outcome[c].status = Some(Res(c).status)

\* The dispatch of call c has finished: doFetch has returned or thrown.
Dispatched(c) == pc[c] \in {"readJsonObject", "tryReadJsonObject", "tryReadText", "done"}

\* C17: once the dispatch has finished the timeout is no longer set, a call
\* that obtained a response was never timed out or aborted, and a timeout
\* that fired has aborted the request.
C17_LoserReleased ==
    \A c \in Calls :
        /\ Dispatched(c) => ~timerArmed[c]
        /\ Responded(c) => ~timedOut[c] /\ ~aborted[c]
        /\ timedOut[c] => aborted[c] /\ ~timerArmed[c]

C17_Witness ==
    /\ Dispatched(1)
    /\ timedOut[1]
    /\ aborted[1]
    /\ ~timerArmed[1]
    /\ fetchError[1] = Some([name |-> "AbortError", cause |-> "abort"])
    /\ outcome[1] = TimeoutError

\* Everything the model holds of call c.
CallState(c) ==
    <<pc[c], input[c], request[c], timerArmed[c], timerDelay[c], timedOut[c], aborted[c],
      deadlinePassed[c], fetchError[c], response[c], bodyReads[c], outcome[c]>>

\* The result of a call that runs alone and obtains the response.
AloneOutcome(res) ==
    LET fails     == res.read # "ok"
        first     == DoRpcOnResponse(res)
        afterJson == DoRpcAfterJson(res, TryReadJsonObjectEnd(ResJson(res, fails)))
    IN  CASE first.pc = "done" -> first.outcome
          [] first.pc = "readJsonObject" -> ReadJsonObjectEnd(ResJson(res, fails))
          [] first.pc = "tryReadText" ->
                DoRpcAfterText(res, TryReadTextEnd(ResText(res, fails))).outcome
          [] first.pc = "tryReadJsonObject" ->
                IF afterJson.pc = "done" THEN afterJson.outcome
                ELSE DoRpcAfterText(res, None).outcome

\* C18: with two calls running side by side, every step changes the state
\* of one call only, and a call that has ended has the result it has when it
\* runs alone: TimeoutError if its own deadline aborted its fetch,
\* NetworkError if its own transport failed, and else the classification of
\* its own response.
C18_CallsIndependent ==
    /\ [](\A c \in Calls :
            Ended(c) =>
                outcome[c] =
                    IF Responded(c) THEN AloneOutcome(Res(c))
                    ELSE IF deadlinePassed[c] /\ fetchError[c] = Some([name |-> "AbortError", cause |-> "abort"])
                         THEN TimeoutError
                         ELSE NetworkError)
    /\ [][\E c \in Calls : \A d \in Calls \ {c} : CallState(d)' = CallState(d)]_vars

C18_Witness ==
    /\ Ended(1)
    /\ outcome[1] = TimeoutError
    /\ deadlinePassed[1]
    /\ Ended(2)
    /\ ~deadlinePassed[2]
    /\ ~timedOut[2]
    /\ outcome[2] = Returned(JObj(<<Member(<<"a">>, JNum(1))>>))

\* The caller's headers as a list, empty when it passed none.
CallerHeaderList(c) == IF CallerHeaders(c) = None THEN <<>> ELSE CallerHeaders(c)[1]

\* The entries of a list of headers, as a set.
Entries(headers) == {headers[i] : i \in 1..Len(headers)}

\* Header names are compared without regard to case; these are the
\* spellings of content-type in the model.
ContentTypeNames == {"content-type", "Content-Type"}

ContentTypeEntries(headers) == {e \in Entries(headers) : e.k \in ContentTypeNames}

\* The call was made with the JSON object {"a": 1} as body.
HasObjectBody(c) == input[c][1].body = JObj(<<Member(<<"a">>, JNum(1))>>)

\* C19 as stated: an object body is sent as its JSON text with the caller's
\* headers and a content-type that is the caller's if the caller gave one
\* and application/json otherwise; with no body the request has no body and
\* the caller's headers only.
C19_CallerContentTypeReplaces ==
    \A c \in Calls :
        request[c] # None =>
            /\ HasObjectBody(c) =>
                /\ request[c][1].body = Some(<<"{", "\"", "a", "\"", ":", "1", "}">>)
                /\ request[c][1].headers # None
                /\ Entries(CallerHeaderList(c)) \subseteq Entries(request[c][1].headers[1])
                /\ ContentTypeEntries(request[c][1].headers[1]) =
                     IF ContentTypeEntries(CallerHeaderList(c)) # {}
                     THEN ContentTypeEntries(CallerHeaderList(c))
                     ELSE {Member("content-type", "application/json")}
            /\ input[c][1].body.t = "undefined" =>
                /\ request[c][1].body = None
                /\ request[c][1].headers = CallerHeaders(c)

\* C19 amended: the default content-type is replaced by a caller's header
\* named content-type in exactly that spelling, and stands beside a caller's
\* header of any other spelling.
C19_ExactNameReplaces ==
    \A c \in Calls :
        request[c] # None =>
            /\ HasObjectBody(c) =>
                /\ request[c][1].body = Some(<<"{", "\"", "a", "\"", ":", "1", "}">>)
                /\ request[c][1].headers # None
                /\ Entries(request[c][1].headers[1]) =
                     Entries(CallerHeaderList(c))
                     \cup IF \E e \in Entries(CallerHeaderList(c)) : e.k = "content-type"
                          THEN {}
                          ELSE {Member("content-type", "application/json")}
                /\ Len(request[c][1].headers[1]) = Cardinality(Entries(request[c][1].headers[1]))
            /\ input[c][1].body.t = "undefined" =>
                /\ request[c][1].body = None
                /\ request[c][1].headers = CallerHeaders(c)

C19_Witness ==
    /\ request[1] # None
    /\ HasObjectBody(1)
    /\ CallerHeaders(1) = Some(<<Member("content-type", "text/x")>>)
    /\ request[1][1].body = Some(<<"{", "\"", "a", "\"", ":", "1", "}">>)
    /\ request[1][1].headers = Some(<<Member("content-type", "text/x")>>)

\* C20: a call reads the body of its response at most once: a 2xx response
\* by the JSON read only, any other response by the JSON read if its type is
\* JSON and by the text read if its type is plain text, and a response that
\* declares no body not at all.
C20_BodyReadAtMostOnce ==
    \A c \in Calls :
        /\ Len(bodyReads[c]) <= 1
        /\ ~Responded(c) => bodyReads[c] = <<>>
        /\ Responded(c) =>
            /\ Is2xx(Res(c)) => bodyReads[c] \in {<<>>, <<"json">>}
            /\ bodyReads[c] = <<"json">> => IsJsonType(Res(c))
            /\ bodyReads[c] = <<"text">> => ~Is2xx(Res(c)) /\ IsTextType(Res(c))
            /\ DeclaresNoBody(Res(c)) => bodyReads[c] = <<>>

C20_Witness ==
    /\ Ended(1)
    /\ Responded(1)
    /\ Res(1).status = 503
    /\ Res(1).body = <<"{", "\"", "a", "\"", ":", "1", "}">>
    /\ bodyReads[1] = <<"json">>
    /\ outcome[1] = ServerError(<<"5", "0", "3", " ", "S", "e", "r", "v", "i", "c", "e", " ", "U", "n", "a", "v", "a", "i", "l", "a", "b", "l", "e">>, Some(503))
====
